---- MODULE Spec2Model ----
(***************************************************************************)
(* Model of script/parseswe.py: the batch compiler that turns a list of    *)
(* instance ids into per-job main.sh scripts and one run_all.sh.           *)
(*                                                                         *)
(* Text is a sequence of tokens (strings).  A token is either a literal    *)
(* piece of text, a path separator "/", a newline "\n", a replacement      *)
(* field "{name}" or an escaped brace "{{" / "}}".  Paths on disk are      *)
(* sequences of components below the root.                                 *)
(***************************************************************************)
EXTENDS Naturals, Sequences, FiniteSets, TLC

(* Longest instance id list tried. *)
MaxIds == 3

(***************************************************************************)
(* Text and path helpers                                                   *)
(***************************************************************************)
Last(s) == s[Len(s)]

RECURSIVE ConcatRange(_, _, _)
ConcatRange(parts, lo, hi) ==
    IF lo > hi THEN <<>>
    ELSE IF lo = hi THEN parts[lo]
    ELSE LET mid == (lo + hi) \div 2 IN
         ConcatRange(parts, lo, mid) \o ConcatRange(parts, mid + 1, hi)

(* "".join(parts) *)
Concat(parts) == ConcatRange(parts, 1, Len(parts))

(* b.startswith("/") *)
IsAbs(p) == p # <<>> /\ p[1] = "/"

(* posixpath.join(a, b) *)
os_path_join(a, b) ==
    IF IsAbs(b) THEN b
    ELSE IF a = <<>> \/ Last(a) = "/" THEN a \o b
    ELSE a \o <<"/">> \o b

IsName(t) == t \notin {"/", "."}

(* The components of a path: separators and "." components name nothing. *)
Components(p) == SelectSeq(p, IsName)

(* The file a path names when the process runs in directory cwd. *)
Resolve(cwd, p) == IF IsAbs(p) THEN Components(p) ELSE cwd \o Components(p)

(***************************************************************************)
(* External collaborators (module dzyswe): the catalog of instances, the   *)
(* repository family of an instance id and the local clone of its repo.    *)
(***************************************************************************)
sweall ==
    [id \in {"flask-1", "flask-2", "alien-1"} |->
        [base_commit |-> CASE id = "flask-1" -> <<"c0ffee1">>
                           [] id = "flask-2" -> <<"c0ffee2">>
                           [] OTHER          -> <<"a11e1">>]]

reponame(instance_id) ==
    CASE instance_id \in {"flask-1", "flask-2"} -> "flask"
      [] instance_id = "alien-1"                -> "alien"
      [] OTHER                                  -> "ghost"

repopath(instance_id) == <<"/", "repos", "/", reponame(instance_id)>>

(* Every id a caller may pass; "ghost-1" is not in the catalog. *)
InstanceIds == DOMAIN sweall \cup {"ghost-1"}

(***************************************************************************)
(* Module constants                                                        *)
(***************************************************************************)
SCRIPT_TEMPLATE ==
    << "#!/bin/bash", "\n",
       "set -e", "\n",
       "# jedi caching", "\n",
       "export XDG_CACHE_HOME=", "{outdir}", "/", "{instance_id}", "\n",
       "rm -rf ", "{outdir}", "/", "{instance_id}", "/", "repo", "\n",
       "git clone ", "{repo_path}", " ", "{outdir}", "/", "{instance_id}", "/", "repo", "\n",
       "cd ", "{outdir}", "/", "{instance_id}", "/", "repo", "\n",
       "git checkout ", "{commit}", "\n",
       "cd -", "\n",
       "echo Logs for ", "{instance_id}", " is at ", "{outdir}", "/", "{instance_id}", "/", "log.txt", "\n",
       "( ", "{command}", " ) > ", "{outdir}", "/", "{instance_id}", "/", "log.txt", " 2>&1", "\n" >>

INCLUDE ==
    [family \in {"flask", "matplotlib", "pytest", "astropy", "scikit-learn", "seaborn",
                 "sympy", "django", "pylint", "requests", "sphinx", "xarray"} |->
        CASE family \in {"flask", "pytest", "requests"} -> <<"src">>
          [] family = "matplotlib"                      -> <<"lib", "/", "matplotlib">>
          [] family = "scikit-learn"                    -> <<"sklearn">>
          [] OTHER                                      -> <<family>>]

PylspTemplate ==
    << "./abcoder parse python ", "{repo_path}", " -verbose -o ", "{outdir}", "/",
       "{instance_id}", ".json -include ", "{include_path}", " -lsp-cache-path ",
       "{outdir}", "/", "{instance_id}", "/", "lsp_cache.json" >>

JediTemplate ==
    PylspTemplate \o
    << " -lsp jedi-language-server -lsp-flags '--log-file ", "{outdir}", "/",
       "{instance_id}", "/", "lsp.log", " -v'" >>

DEFAULT_COMMAND_TEMPLATES ==
    [name \in {<<"pylsp">>, <<"jedi">>} |->
        IF name = <<"pylsp">> THEN PylspTemplate ELSE JediTemplate]

(***************************************************************************)
(* str.format with keyword arguments d                                     *)
(***************************************************************************)
Field(name) == "{" \o name \o "}"

(* Names that occur as replacement fields in some template of the model. *)
FieldNames == {"repo_path", "commit", "include_path", "instance_id", "outdir", "command", "foo"}

FieldTokens == {Field(n) : n \in FieldNames}

NameOf(tok) == CHOOSE n \in FieldNames : Field(n) = tok

(* What one token of a template contributes to the result: a field its   *)
(* value (which is not scanned again), an escaped brace a single brace,   *)
(* literal text itself.                                                    *)
Piece(tok, d) ==
    IF tok \in FieldTokens THEN d[NameOf(tok)]
    ELSE IF tok = "{{" THEN <<"{">>
    ELSE IF tok = "}}" THEN <<"}">>
    ELSE <<tok>>

(* Positions of the fields of t that d has no value for. *)
Missing(t, d) == {k \in 1..Len(t) : t[k] \in FieldTokens /\ NameOf(t[k]) \notin DOMAIN d}

Min(S) == CHOOSE k \in S : \A m \in S : k <= m

(* Variant: a field missing from d is left in the text as it is. *)
FormatLenient(t, d) ==
    [ok |-> TRUE,
     out |-> Concat([k \in 1..Len(t) |->
                IF k \in Missing(t, d) THEN <<t[k]>> ELSE Piece(t[k], d)]),
     key |-> ""]

(* The template is scanned left to right; the first field missing from d  *)
(* raises KeyError(name) and nothing is returned.                         *)
Format(t, d) ==
    IF Missing(t, d) # {}
    THEN [ok |-> FALSE, out |-> <<>>, key |-> NameOf(t[Min(Missing(t, d))])]
    ELSE [ok |-> TRUE, out |-> Concat([k \in 1..Len(t) |-> Piece(t[k], d)]), key |-> ""]

(***************************************************************************)
(* The command line: what argparse accepts                                 *)
(***************************************************************************)
(* -o values tried: the default, a nested directory written with a        *)
(* trailing slash, and an absolute directory.                              *)
Outdirs == { <<"sweout">>, <<"out", "/", "d", "/">>, <<"/", "abs">> }

(* -c values tried: the two registered names, an unregistered word, and    *)
(* literal templates (one with escaped braces, two with unknown fields).   *)
Commands ==
    { <<"jedi">>, <<"pylsp">>, <<"mytool">>,
      <<"run ", "{commit}", " in ", "{repo_path}", " ", "{{", "x", "}}">>,
      <<"tool ", "{foo}">>,
      <<"echo ", "{command}">> }

(* Working directories tried: the root, and a directory below it. *)
Cwds == { <<>>, <<"work">> }

Prefixes(c) == {SubSeq(c, 1, k) : k \in 0..Len(c)}

DirEntry == [kind |-> "dir", content |-> <<>>, mode |-> "0o755"]

(* The disk before the run: the working directory and its ancestors. *)
InitFs(dir) == [p \in Prefixes(dir) |-> DirEntry]

VARIABLES
    args,         \* argparse namespace: instance_ids, outdir, command, parallel
    cwd,          \* working directory of the process
    pc,           \* position in main()
    i,            \* index of the loop iteration in progress
    jobs,         \* compute_jobs: jobs built so far
    scripts,      \* create_scripts: script paths appended so far
    format_dict,  \* create_scripts: format_dict of the iteration in progress
    command,      \* create_scripts: the command template of the iteration in progress
    fs,           \* the disk: path |-> [kind, content, mode]
    oplog,        \* the file system calls made so far, in order
    err,          \* the exception that ended the run, if any
    stdout        \* what was printed

vars == <<args, cwd, pc, i, jobs, scripts, format_dict, command, fs, oplog, err, stdout>>

NoErr == [type |-> "none", key |-> ""]

Init ==
    /\ args \in [instance_ids : UNION {[1..n -> InstanceIds] : n \in 1..MaxIds},
                 outdir : Outdirs,
                 command : Commands,
                 parallel : BOOLEAN]
    /\ cwd \in Cwds
    /\ pc = "compute_jobs"
    /\ i = 1
    /\ jobs = <<>>
    /\ scripts = <<>>
    /\ format_dict = <<>>
    /\ command = <<>>
    /\ fs = InitFs(cwd)
    /\ oplog = <<>>
    /\ err = NoErr
    /\ stdout = <<>>

(* An uncaught exception ends the process. *)
Raise(type, key) ==
    /\ pc' = "raised"
    /\ err' = [type |-> type, key |-> key]

(***************************************************************************)
(* compute_jobs: one loop iteration                                        *)
(***************************************************************************)
(* Variant: a lookup that falls back to a default instead of raising. *)
CatalogHasLenient(instance_id) == TRUE

CatalogHas(instance_id) == instance_id \in DOMAIN sweall

Job(instance_id) ==
    [instance_id |-> instance_id,
     repo_path   |-> repopath(instance_id),
     commit      |-> IF instance_id \in DOMAIN sweall
                     THEN sweall[instance_id].base_commit
                     ELSE <<"None">>]   \* not reached: compute_jobs raises first

(* Variant: a job already planned is not planned again. *)
AppendJobDedup(js, job) == IF \E k \in 1..Len(js) : js[k] = job THEN js ELSE Append(js, job)

AppendJob(js, job) == Append(js, job)

compute_jobs ==
    /\ pc = "compute_jobs"
    /\ LET instance_id == args.instance_ids[i] IN
       IF ~CatalogHas(instance_id)
       THEN /\ Raise("KeyError", instance_id)
            /\ UNCHANGED <<i, jobs>>
       ELSE /\ jobs' = AppendJob(jobs, Job(instance_id))
            /\ IF i < Len(args.instance_ids)
               THEN i' = i + 1 /\ pc' = "compute_jobs"
               ELSE i' = 1 /\ pc' = "cs_prepare"
            /\ err' = err
    /\ UNCHANGED <<args, cwd, scripts, format_dict, command, fs, oplog, stdout>>

(***************************************************************************)
(* create_scripts: one loop iteration in four steps                        *)
(***************************************************************************)
instance_dir(job) == os_path_join(args.outdir, <<job.instance_id>>)

(* Variant: main.sh placed in the output directory itself. *)
script_path_shared(job) == os_path_join(args.outdir, <<"main.sh">>)

script_path(job) == os_path_join(instance_dir(job), <<"main.sh">>)

(* os.makedirs(p, exist_ok=True): every missing ancestor becomes a directory. *)
makedirs(disk, p) ==
    [q \in DOMAIN disk \cup Prefixes(p) |-> IF q \in DOMAIN disk THEN disk[q] ELSE DirEntry]

(* open(p, "w"); f.write(content): creates the file or truncates it, keeping its mode. *)
write_file(disk, p, content) ==
    [q \in DOMAIN disk \cup {p} |->
        IF q = p
        THEN [kind |-> "file", content |-> content,
              mode |-> IF p \in DOMAIN disk THEN disk[p].mode ELSE "0o644"]
        ELSE disk[q]]

(* os.chmod(p, 0o755) *)
chmod755(disk, p) == [disk EXCEPT ![p].mode = "0o755"]

Op(op, p, data) == [op |-> op, path |-> p, data |-> data]

(* lines 57-62: look up the include path, create the job's directory *)
cs_prepare ==
    /\ pc = "cs_prepare"
    /\ LET job == jobs[i]
           family == reponame(job.instance_id) IN
       IF family \notin DOMAIN INCLUDE
       THEN /\ Raise("KeyError", family)
            /\ UNCHANGED <<format_dict, fs, oplog>>
       ELSE /\ fs' = makedirs(fs, Resolve(cwd, instance_dir(job)))
            /\ oplog' = Append(oplog, Op("makedirs", Resolve(cwd, instance_dir(job)), <<>>))
            /\ format_dict' = [k \in {"repo_path", "commit", "include_path", "instance_id", "outdir"} |->
                                 CASE k = "repo_path"    -> job.repo_path
                                   [] k = "commit"       -> job.commit
                                   [] k = "include_path" -> INCLUDE[family]
                                   [] k = "instance_id"  -> <<job.instance_id>>
                                   [] OTHER              -> args.outdir]
            /\ pc' = "cs_render"
            /\ err' = err
    /\ UNCHANGED <<args, cwd, i, jobs, scripts, command, stdout>>

(* Variant: DEFAULT_COMMAND_TEMPLATES.get(name), an unregistered name gives nothing. *)
ResolveTemplateStrict(name) ==
    IF name \in DOMAIN DEFAULT_COMMAND_TEMPLATES THEN DEFAULT_COMMAND_TEMPLATES[name] ELSE <<>>

(* DEFAULT_COMMAND_TEMPLATES.get(name, name) *)
ResolveTemplate(name) ==
    IF name \in DOMAIN DEFAULT_COMMAND_TEMPLATES THEN DEFAULT_COMMAND_TEMPLATES[name] ELSE name

(* Variant: the command template goes into the skeleton unrendered. *)
RenderCommandRaw(template, d) == [ok |-> TRUE, out |-> template, key |-> ""]

(* command.format over format_dict *)
RenderCommand(template, d) == Format(template, d)

(* lines 71-72: resolve the command template and render it *)
cs_render ==
    /\ pc = "cs_render"
    /\ command' = ResolveTemplate(args.command)
    /\ LET r == RenderCommand(command', format_dict) IN
       IF ~r.ok
       THEN /\ Raise("KeyError", r.key)
            /\ UNCHANGED format_dict
       ELSE /\ format_dict' = [k \in DOMAIN format_dict \cup {"command"} |->
                                 IF k = "command" THEN r.out ELSE format_dict[k]]
            /\ pc' = "cs_write"
            /\ err' = err
    /\ UNCHANGED <<args, cwd, i, jobs, scripts, fs, oplog, stdout>>

(* lines 73-74: render the skeleton and write main.sh *)
cs_write ==
    /\ pc = "cs_write"
    /\ LET p == Resolve(cwd, script_path(jobs[i]))
           r == Format(SCRIPT_TEMPLATE, format_dict) IN
       IF ~r.ok
       THEN /\ Raise("KeyError", r.key)
            /\ UNCHANGED <<fs, oplog>>
       ELSE /\ fs' = write_file(fs, p, r.out)
            /\ oplog' = Append(oplog, Op("write", p, r.out))
            /\ pc' = "cs_chmod"
            /\ err' = err
    /\ UNCHANGED <<args, cwd, i, jobs, scripts, format_dict, command, stdout>>

(* lines 75-76: mark main.sh executable, record its path; then the next job *)
cs_chmod ==
    /\ pc = "cs_chmod"
    /\ LET p == Resolve(cwd, script_path(jobs[i])) IN
       /\ fs' = chmod755(fs, p)
       /\ oplog' = Append(oplog, Op("chmod", p, <<>>))
    /\ scripts' = Append(scripts, script_path(jobs[i]))
    /\ IF i < Len(jobs)
       THEN i' = i + 1 /\ pc' = "cs_prepare"
       ELSE i' = 1 /\ pc' = "top_write"
    /\ UNCHANGED <<args, cwd, jobs, format_dict, command, err, stdout>>

(***************************************************************************)
(* create_top_script                                                       *)
(***************************************************************************)
top_path == args.outdir \o <<"/", "run_all.sh">>

TopHeader == <<"#!/bin/bash", "\n", "set -e", "\n">>

(* f"./{script}" *)
DotSlash(script) == <<".", "/">> \o script

(* Variant: the slice of the parallel branch used here too. *)
SequentialBodyButLast(ss) == Concat([k \in 1..(Len(ss) - 1) |-> DotSlash(ss[k]) \o <<"\n">>])

(* lines 90-91 *)
SequentialBody(ss) == Concat([k \in 1..Len(ss) |-> DotSlash(ss[k]) \o <<"\n">>])

(* Variant: the loop runs over all scripts, then the last one is written again. *)
ParallelBodyAll(ss) ==
    <<"echo Executing in parallel mode...", "\n", "parallel ::: ", "\\", "\n">>
    \o Concat([k \in 1..Len(ss) |-> DotSlash(ss[k]) \o <<" ", "\\", "\n">>])
    \o DotSlash(ss[Len(ss)]) \o <<"\n">>

(* lines 84-88 *)
ParallelBody(ss) ==
    <<"echo Executing in parallel mode...", "\n", "parallel ::: ", "\\", "\n">>
    \o Concat([k \in 1..(Len(ss) - 1) |-> DotSlash(ss[k]) \o <<" ", "\\", "\n">>])
    \o DotSlash(ss[Len(ss)]) \o <<"\n">>

TopContent(ss, parallel) ==
    TopHeader \o (IF parallel THEN ParallelBody(ss) ELSE SequentialBody(ss))

(* lines 81-91: write run_all.sh *)
top_write ==
    /\ pc = "top_write"
    /\ LET p == Resolve(cwd, top_path)
           c == TopContent(scripts, args.parallel) IN
       /\ fs' = write_file(fs, p, c)
       /\ oplog' = Append(oplog, Op("write", p, c))
    /\ pc' = "top_chmod"
    /\ UNCHANGED <<args, cwd, i, jobs, scripts, format_dict, command, err, stdout>>

(* lines 92-93: mark run_all.sh executable and report it *)
top_chmod ==
    /\ pc = "top_chmod"
    /\ LET p == Resolve(cwd, top_path) IN
       /\ fs' = chmod755(fs, p)
       /\ oplog' = Append(oplog, Op("chmod", p, <<>>))
    /\ stdout' = Append(stdout, <<"To run all jobs, execute: ", ".", "/">> \o top_path)
    /\ pc' = "done"
    /\ UNCHANGED <<args, cwd, i, jobs, scripts, format_dict, command, err>>

Next ==
    \/ compute_jobs
    \/ cs_prepare
    \/ cs_render
    \/ cs_write
    \/ cs_chmod
    \/ top_write
    \/ top_chmod

Spec == Init /\ [][Next]_vars

(***************************************************************************)
(* Vocabulary of the properties                                            *)
(***************************************************************************)
Range(f) == {f[k] : k \in DOMAIN f}

ids == args.instance_ids

DictKeys == {"repo_path", "commit", "include_path", "instance_id", "outdir"}

(* <outdir>/<instance_id>/main.sh, as a file on disk *)
TargetOf(instance_id) == Resolve(cwd, args.outdir \o <<"/", instance_id, "/", "main.sh">>)

RunAll == Resolve(cwd, args.outdir \o <<"/", "run_all.sh">>)

Files == {p \in DOMAIN fs : fs[p].kind = "file"}

Writes(p) == {k \in 1..Len(oplog) : oplog[k].op = "write" /\ oplog[k].path = p}

Returned == pc \in {"top_write", "top_chmod", "done"}

(* The lines of a text that ends in a newline. *)
Newlines(c) == {k \in 1..Len(c) : c[k] = "\n"}

NthNewline(c, j) == CHOOSE k \in Newlines(c) : Cardinality({m \in Newlines(c) : m <= k}) = j

Lines(c) ==
    [j \in 1..Cardinality(Newlines(c)) |->
        SubSeq(c, (IF j = 1 THEN 1 ELSE NthNewline(c, j - 1) + 1), NthNewline(c, j) - 1)]

(* The command between "( " and " ) > " on the last line of a main.sh. *)
EmbeddedCommand(c) ==
    SubSeq(c, Min({k \in 1..Len(c) : c[k] = "( "}) + 1,
              Min({k \in 1..Len(c) : c[k] = " ) > "}) - 1)

Contains(text, v) == \E a \in 0..(Len(text) - Len(v)) : SubSeq(text, a + 1, a + Len(v)) = v

(* The value the job of an instance has for a field. *)
JobValue(instance_id, name) ==
    CASE name = "repo_path"    -> repopath(instance_id)
      [] name = "commit"       -> sweall[instance_id].base_commit
      [] name = "include_path" -> INCLUDE[reponame(instance_id)]
      [] name = "instance_id"  -> <<instance_id>>
      [] name = "outdir"       -> args.outdir

ExpectedTemplate ==
    IF args.command = <<"jedi">> THEN JediTemplate
    ELSE IF args.command = <<"pylsp">> THEN PylspTemplate
    ELSE args.command

(* Fields of the command template that the job dictionary cannot resolve. *)
UnknownFields == {n \in FieldNames \ DictKeys : Field(n) \in Range(ExpectedTemplate)}

(* The run ended on the INCLUDE lookup of a family the table lacks. *)
FamilyLookupFailed ==
    /\ pc = "raised"
    /\ err.key \in {reponame(id) : id \in DOMAIN sweall} \ DOMAIN INCLUDE

(* The paths run_all.sh hands to the shell: each line that starts with    *)
(* "./", without its line continuation.                                   *)
StripContinuation(line) ==
    IF Len(line) >= 2 /\ line[Len(line)] = "\\" THEN SubSeq(line, 1, Len(line) - 2) ELSE line

ListedPaths(c) ==
    {StripContinuation(Lines(c)[j]) :
        j \in {m \in 1..Cardinality(Newlines(c)) : Len(Lines(c)[m]) >= 2 /\ Lines(c)[m][1] = "."}}

(***************************************************************************)
(* C1: when the family of some identifier has no entry in INCLUDE, the     *)
(* run raises before anything is created: at the failing lookup the disk   *)
(* is as it was (no job directory, no main.sh, no run_all.sh).             *)
(***************************************************************************)
C1_FamilyMissLeavesNoOutput ==
    FamilyLookupFailed => (fs = InitFs(cwd) /\ oplog = <<>>)

(***************************************************************************)
(* C2: when some identifier of the list, at any position, is not in the    *)
(* catalog, the run never leaves planning, ends with the KeyError of the   *)
(* first such identifier, and the disk is unchanged.                       *)
(***************************************************************************)
C2_CatalogMissAbortsPlanning ==
    (\E k \in 1..Len(ids) : ids[k] \notin DOMAIN sweall) =>
        /\ pc \in {"compute_jobs", "raised"}
        /\ fs = InitFs(cwd)
        /\ oplog = <<>>
        /\ pc = "raised" =>
              /\ err.type = "KeyError"
              /\ err.key = ids[Min({k \in 1..Len(ids) : ids[k] \notin DOMAIN sweall})]

C2_Witness ==
    /\ pc = "raised"
    /\ err.key = "ghost-1"
    /\ Len(ids) = 2
    /\ ids[1] = "flask-1"
    /\ Len(jobs) = 1

(***************************************************************************)
(* C3: once create_scripts has returned, scripts has one path per          *)
(* identifier, in the order of the identifiers, and the k-th path is       *)
(* <outdir>/<ids[k]>/main.sh; duplicates are kept.                         *)
(***************************************************************************)
C3_OnePathPerIdentifier ==
    Returned =>
        /\ Len(scripts) = Len(ids)
        /\ \A k \in 1..Len(scripts) :
              /\ Components(scripts[k]) = Components(args.outdir) \o <<ids[k], "main.sh">>
              /\ IsAbs(scripts[k]) = IsAbs(args.outdir)

C3_Witness ==
    /\ pc = "done"
    /\ Len(ids) = 2
    /\ ids[1] = ids[2]
    /\ Len(scripts) = 2

(***************************************************************************)
(* C4: in every main.sh on disk the embedded command holds no replacement  *)
(* field, and for every field of the job dictionary that the command       *)
(* template references it holds the value of the job the file belongs to.  *)
(***************************************************************************)
C4_CommandRenderedBeforeEmbedding ==
    \A k \in 1..Len(jobs) :
        TargetOf(jobs[k].instance_id) \in Files =>
            LET cmd == EmbeddedCommand(fs[TargetOf(jobs[k].instance_id)].content) IN
            /\ \A j \in 1..Len(cmd) : cmd[j] \notin FieldTokens
            /\ \A n \in DictKeys :
                  Field(n) \in Range(ExpectedTemplate) =>
                      Contains(cmd, JobValue(jobs[k].instance_id, n))

C4_Witness ==
    /\ pc = "done"
    /\ "{commit}" \in Range(args.command)
    /\ ids = <<"flask-1", "flask-2">>
    /\ Contains(EmbeddedCommand(fs[TargetOf("flask-2")].content), <<"run ", "c0ffee2", " in ">>)

(***************************************************************************)
(* C5: when the command template references a field the job dictionary     *)
(* lacks, no main.sh is ever written, the loop never reaches a second job, *)
(* run_all.sh is not written, and the run ends with a KeyError.            *)
(***************************************************************************)
C5_UnknownFieldWritesNothing ==
    UnknownFields # {} =>
        /\ Files = {}
        /\ \A k \in 1..Len(oplog) : oplog[k].op = "makedirs"
        /\ scripts = <<>>
        /\ pc \in {"compute_jobs", "cs_prepare", "cs_render", "raised"}
        /\ pc \in {"cs_prepare", "cs_render"} => i = 1
        /\ pc = "raised" => err.type = "KeyError"

C5_Witness ==
    /\ pc = "raised"
    /\ err.key = "foo"
    /\ Len(jobs) = 2
    /\ TargetOf(jobs[1].instance_id) \notin DOMAIN fs
    /\ Len(oplog) = 1

(***************************************************************************)
(* C6: in sequential mode run_all.sh is the shebang line, the line set -e  *)
(* and then one line ./<script> per script, in the order of scripts.       *)
(***************************************************************************)
C6_SequentialRunAll ==
    (pc \in {"top_chmod", "done"} /\ ~args.parallel) =>
        /\ RunAll \in Files
        /\ Last(fs[RunAll].content) = "\n"
        /\ Lines(fs[RunAll].content) =
              << <<"#!/bin/bash">>, <<"set -e">> >>
              \o [k \in 1..Len(scripts) |-> <<".", "/">> \o scripts[k]]

C6_Witness ==
    /\ pc = "done"
    /\ ~args.parallel
    /\ Len(scripts) = 2
    /\ scripts[1] # scripts[2]

(***************************************************************************)
(* C7: in parallel mode run_all.sh starts with the shebang line and        *)
(* set -e and invokes the parallel runner exactly once, with ./<script>    *)
(* for each script in order, every one but the last followed by a line     *)
(* continuation.                                                           *)
(***************************************************************************)
C7_ParallelRunAll ==
    (pc \in {"top_chmod", "done"} /\ args.parallel) =>
        /\ RunAll \in Files
        /\ Last(fs[RunAll].content) = "\n"
        /\ Cardinality({k \in 1..Len(fs[RunAll].content) :
                            fs[RunAll].content[k] = "parallel ::: "}) = 1
        /\ Lines(fs[RunAll].content) =
              << <<"#!/bin/bash">>, <<"set -e">>,
                 <<"echo Executing in parallel mode...">>, <<"parallel ::: ", "\\">> >>
              \o [k \in 1..Len(scripts) |->
                    <<".", "/">> \o scripts[k]
                    \o (IF k < Len(scripts) THEN <<" ", "\\">> ELSE <<>>)]

C7_Witness ==
    /\ pc = "done"
    /\ args.parallel
    /\ Len(scripts) = 2
    /\ scripts[1] # scripts[2]

(***************************************************************************)
(* C8, as claimed: no file is written twice in one run, whatever the       *)
(* identifier list.                                                        *)
(***************************************************************************)
C8_WrittenAtMostOnce ==
    \A p \in DOMAIN fs : Cardinality(Writes(p)) <= 1

(***************************************************************************)
(* C8, amended: a main.sh is written at most once per occurrence of its    *)
(* identifier in the list (so at most once when the identifiers are        *)
(* distinct) and run_all.sh at most once; writes to one file all carry the *)
(* same content; nothing but its own write and chmod touches a file.       *)
(***************************************************************************)
C8_WrittenOncePerOccurrence ==
    /\ \A p \in {oplog[k].path : k \in {m \in 1..Len(oplog) : oplog[m].op # "makedirs"}} :
          /\ Cardinality(Writes(p)) <=
                IF p = RunAll THEN 1
                ELSE Cardinality({k \in 1..Len(ids) : TargetOf(ids[k]) = p})
          /\ \A a, b \in Writes(p) : oplog[a].data = oplog[b].data
    /\ \A p \in Files : \A a \in Writes(p) : fs[p].content = oplog[a].data

C8_Witness ==
    /\ pc = "done"
    /\ Len(ids) = 2
    /\ ids[1] = ids[2]
    /\ Cardinality(Writes(TargetOf(ids[1]))) = 2

(***************************************************************************)
(* C9: the command argument is never rejected: a registered name stands    *)
(* for its registered template, any other text is its own template.        *)
(***************************************************************************)
C9_TemplateResolution ==
    /\ (pc \in {"cs_write", "cs_chmod"} \/ Returned) => command = ExpectedTemplate
    /\ (pc = "raised" /\ command # <<>>) =>
          /\ command = ExpectedTemplate
          /\ err.key # "" /\ <<err.key>> # args.command

C9_Witness ==
    /\ pc = "done"
    /\ args.command = <<"mytool">>
    /\ command = <<"mytool">>
    /\ EmbeddedCommand(fs[TargetOf(ids[1])].content) = <<"mytool">>

(***************************************************************************)
(* C10: whenever run_all.sh exists, every path it lists names an existing  *)
(* executable main.sh; and a run that failed has not written run_all.sh.   *)
(***************************************************************************)
C10_RunAllListsExistingScripts ==
    /\ RunAll \in Files =>
          \A l \in ListedPaths(fs[RunAll].content) :
              /\ Resolve(cwd, l) \in Files
              /\ fs[Resolve(cwd, l)].mode = "0o755"
              /\ Last(l) = "main.sh"
    /\ pc = "raised" => (RunAll \notin DOMAIN fs /\ Writes(RunAll) = {})

====
